---- MODULE Spec2Model ----
(***************************************************************************)
(* Storage (lib/sqlsync/src/storage.rs): the virtual-file adapter that     *)
(* overlays pending page writes on an append-only, LSN-ordered journal.    *)
(*                                                                         *)
(* Storage is translated from storage.rs.  The page, sparse page map, LSN  *)
(* range and journal modules it imports are not part of the sources at     *)
(* hand; they are modelled from their description in spec.md sections 3    *)
(* and 4.2/4.3.                                                             *)
(*                                                                         *)
(* SqliteWal (lib/sqlsync/src/physical/sqlite_wal.rs): the byte buffer of  *)
(* one WAL file, translated from sqlite_wal.rs; the checksum function it   *)
(* imports is modelled from spec.md section 4.1.                           *)
(***************************************************************************)
EXTENDS Integers, Sequences, FiniteSets, TLC

VARIABLES
    journal,              \* Storage.journal: JournalId -> sequence of entries
    visible_lsn_range,    \* Storage.visible_lsn_range
    pending,              \* Storage.pending
    file_change_counter,  \* Storage.file_change_counter (u32)
    last,                 \* the last call made on the Storage or the SqliteWal and what it returned
    h_written,            \* history: the page writes issued since the last commit/revert
    h_committed,          \* history: the writes made durable by the latest successful commit
    h_counter_field,      \* history: the change-counter bytes handed out by the latest two header reads
    h_reverted,           \* history: the page indexes the latest revert discarded
    h_received,           \* history: per JournalId, the lsns of the write_lsn calls that succeeded
    data,                 \* SqliteWal.data: the bytes of the WAL buffer
    h_resets              \* history: the number of reset calls made on the WAL

\* the variables of the SqliteWal
wal_vars == <<data, h_resets>>

vars == <<journal, visible_lsn_range, pending, file_change_counter, last,
          h_written, h_committed, h_counter_field, h_reverted, h_received,
          data, h_resets>>

----------------------------------------------------------------------------
(* Bounds of the model *)

\* no journal grows beyond this many entries
MaxLsn == 2

(* Program constants *)

PAGESIZE == 4096

FILE_CHANGE_COUNTER_OFFSET == 24

\* the Lsn a journal gives to its first entry
InitialLsn == 1

----------------------------------------------------------------------------
(* Option<T> *)

None == <<>>

Some(x) == <<x>>

IsSome(o) == o # None

Unwrap(o) == o[1]

Min(a, b) == IF a <= b THEN a ELSE b

SetMax(S) == CHOOSE x \in S : \A y \in S : y <= x

\* Option::max, with None below every Some
OptMax(a, b) ==
    IF a = None THEN b
    ELSE IF b = None THEN a
    ELSE IF Unwrap(a) >= Unwrap(b) THEN a ELSE b

Rev(s) == [i \in 1..Len(s) |-> s[Len(s) + 1 - i]]

----------------------------------------------------------------------------
(* Pages.  A Page is a buffer of exactly PAGESIZE bytes.  The model keeps a
   page as its seed p, standing for the buffer whose byte at offset i is
   (p + i) mod 256, so that two different seeds differ at every offset and a
   read at a wrong offset is visible. *)

Pages == {1, 2}

PageByte(p, i) == (p + i) % 256

(* SparsePages: a map from page index to page *)

EmptyPages == [i \in {} |-> 0]

SparseNumPages(sp) == Cardinality(DOMAIN sp)

SparseWrite(sp, page_idx, page) ==
    [i \in (DOMAIN sp) \cup {page_idx} |-> IF i = page_idx THEN page ELSE sp[i]]

\* read-with-offset: 0 when the page is absent, else the bytes that fit
SparseRead(sp, page_idx, page_offset, buf) ==
    IF page_idx \notin DOMAIN sp
    THEN [n |-> 0, buf |-> buf]
    ELSE LET n == Min(Len(buf), PAGESIZE - page_offset)
         IN  [n |-> n,
              buf |-> [i \in 1..Len(buf) |->
                         IF i <= n THEN PageByte(sp[page_idx], page_offset + i - 1)
                         ELSE buf[i]]]

SparseMaxPageIdx(sp) ==
    IF DOMAIN sp = {} THEN None ELSE Some(SetMax(DOMAIN sp))

----------------------------------------------------------------------------
(* LsnRange: empty, or [first, last] inclusive *)

EmptyRange == [empty |-> TRUE, first |-> 0, last |-> 0]

NonEmptyRange(f, l) == [empty |-> FALSE, first |-> f, last |-> l]

RangeIsNonEmpty(r) == ~r.empty

RangeLast(r) == IF r.empty THEN None ELSE Some(r.last)

RangeContains(r, lsn) == ~r.empty /\ r.first <= lsn /\ lsn <= r.last

----------------------------------------------------------------------------
(* Journal: one append-only log of (lsn, pages) entries per JournalId; the
   log of the journal's own id is the local one. *)

SourceId == "local"

JournalIds == {"local", "peer"}

JournalRange(log) ==
    IF log = <<>> THEN EmptyRange
    ELSE NonEmptyRange(log[1].lsn, log[Len(log)].lsn)

NextLsn(log) ==
    IF log = <<>> THEN InitialLsn ELSE log[Len(log)].lsn + 1

JournalAppend(log, pages) ==
    Append(log, [lsn |-> NextLsn(log), pages |-> pages])

\* forward cursor over the entries whose lsn lies in the range
ScanRange(log, range) ==
    SelectSeq(log, LAMBDA e : RangeContains(range, e.lsn))

JournalReadLsn(log, lsn) ==
    IF \E i \in 1..Len(log) : log[i].lsn = lsn
    THEN Some((CHOOSE e \in {log[i] : i \in 1..Len(log)} : e.lsn = lsn).pages)
    ELSE None

\* accepts the entry only as that id's next entry
JournalWriteLsn(j, id, lsn, pages) ==
    IF lsn = NextLsn(j[id])
    THEN [ok |-> TRUE, journal |-> [j EXCEPT ![id] = JournalAppend(j[id], pages)]]
    ELSE [ok |-> FALSE, journal |-> j]

----------------------------------------------------------------------------
(* Storage *)

\* Storage::new over a fresh journal, and SqliteWal::new
Init ==
    /\ journal = [id \in JournalIds |-> <<>>]
    /\ visible_lsn_range = JournalRange(journal[SourceId])
    /\ pending = EmptyPages
    /\ file_change_counter = 0
    /\ last = [op |-> "new", ret |-> "ok"]
    /\ h_written = EmptyPages
    /\ h_committed = None
    /\ h_counter_field = None
    /\ h_reverted = {}
    /\ h_received = [id \in JournalIds |-> <<>>]
    /\ data = <<>>
    /\ h_resets = 0

\* a panic is fatal: nothing runs after it
Panicked == last.ret = "panic"

last_committed_lsn == RangeLast(JournalRange(journal[SourceId]))

has_committed_pages == RangeIsNonEmpty(JournalRange(journal[SourceId]))

(* commit *)

\* a commit that leaves the cached range as it was
CommitVisibleStale(j) == visible_lsn_range

\* storage.rs 57: the refresh of the cached range after an append
CommitVisible(j) == JournalRange(j[SourceId])

\* a commit that appends the pending set and, again, its highest page
CommitPendingTwice(append_ok) ==
    LET taken == pending
        top == [i \in {SetMax(DOMAIN taken)} |-> taken[i]]
    IN  /\ pending' = EmptyPages
        /\ IF append_ok
           THEN /\ journal' = [journal EXCEPT
                                 ![SourceId] = JournalAppend(JournalAppend(@, taken), top)]
                /\ visible_lsn_range' = JournalRange(journal'[SourceId])
                /\ last' = [op |-> "commit", ret |-> "ok", nonempty |-> TRUE]
           ELSE /\ UNCHANGED <<journal, visible_lsn_range>>
                /\ last' = [op |-> "commit", ret |-> "err", nonempty |-> TRUE]

\* storage.rs 55-57: pending is taken out of self, then handed to
\* journal.append, whose failure returns early through `?`
CommitPending(append_ok) ==
    LET taken == pending
    IN  /\ pending' = EmptyPages
        /\ IF append_ok
           THEN /\ journal' = [journal EXCEPT ![SourceId] = JournalAppend(@, taken)]
                /\ visible_lsn_range' = CommitVisible(journal')
                /\ last' = [op |-> "commit", ret |-> "ok", nonempty |-> TRUE]
           ELSE /\ UNCHANGED <<journal, visible_lsn_range>>
                /\ last' = [op |-> "commit", ret |-> "err", nonempty |-> TRUE]

\* a commit that refreshes the cached range although nothing is pending
CommitNothingRefresh ==
    /\ UNCHANGED <<journal, pending>>
    /\ visible_lsn_range' = JournalRange(journal[SourceId])
    /\ last' = [op |-> "commit", ret |-> "ok", nonempty |-> FALSE]

\* storage.rs 54, 59: nothing pending, Ok(())
CommitNothing ==
    /\ UNCHANGED <<journal, visible_lsn_range, pending>>
    /\ last' = [op |-> "commit", ret |-> "ok", nonempty |-> FALSE]

\* what a commit call leaves of the write history
CommitHistory ==
    IF last'.ret = "ok"
    THEN IF h_written # EmptyPages
         THEN h_written' = EmptyPages /\ h_committed' = Some(h_written)
         ELSE UNCHANGED <<h_written, h_committed>>
    ELSE h_written' = EmptyPages /\ h_committed' = None

Commit ==
    /\ ~Panicked
    /\ UNCHANGED wal_vars
    /\ \/ /\ SparseNumPages(pending) > 0
          /\ Len(journal[SourceId]) < MaxLsn
          /\ \E append_ok \in BOOLEAN : CommitPending(append_ok)
       \/ /\ ~(SparseNumPages(pending) > 0)
          /\ CommitNothing
    /\ CommitHistory
    /\ UNCHANGED <<file_change_counter, h_counter_field, h_reverted, h_received>>

(* revert *)

\* a revert that forgets the committed range
RevertVisibleEmpty(j) == EmptyRange

\* storage.rs 65
RevertVisible(j) == JournalRange(j[SourceId])

Revert ==
    /\ ~Panicked
    /\ UNCHANGED wal_vars
    /\ pending' = EmptyPages
    /\ visible_lsn_range' = RevertVisible(journal)
    /\ last' = [op |-> "revert", ret |-> "ok"]
    /\ h_written' = EmptyPages
    /\ h_committed' = None
    /\ h_reverted' = DOMAIN h_written
    /\ UNCHANGED <<journal, file_change_counter, h_counter_field, h_received>>

(* file_size *)

RECURSIVE FileSizeScanLastWins(_, _)
\* a scan that keeps the entry's maximum instead of the running one
FileSizeScanLastWins(cursor, max_page_idx) ==
    IF cursor = <<>> THEN max_page_idx
    ELSE FileSizeScanLastWins(Tail(cursor), SparseMaxPageIdx(Head(cursor).pages))

RECURSIVE FileSizeScan(_, _)
\* storage.rs 111-114: the forward scan of the visible entries
FileSizeScan(cursor, max_page_idx) ==
    IF cursor = <<>> THEN max_page_idx
    ELSE FileSizeScan(Tail(cursor),
                      OptMax(max_page_idx, SparseMaxPageIdx(Head(cursor).pages)))

file_size ==
    LET max_page_idx ==
            FileSizeScan(ScanRange(journal[SourceId], visible_lsn_range),
                         SparseMaxPageIdx(pending))
    IN  IF IsSome(max_page_idx) THEN (Unwrap(max_page_idx) + 1) * PAGESIZE ELSE 0

FileSize ==
    /\ ~Panicked
    /\ UNCHANGED wal_vars
    /\ last' = [op |-> "file_size", ret |-> "ok", size |-> file_size]
    /\ UNCHANGED <<journal, visible_lsn_range, pending, file_change_counter,
                   h_written, h_committed, h_counter_field, h_reverted, h_received>>

(* truncate, sync *)

TruncateSizes == {0}

Truncate(size) ==
    /\ ~Panicked
    /\ UNCHANGED wal_vars
    /\ last' = [op |-> "truncate", ret |-> "panic", size |-> size]
    /\ UNCHANGED <<journal, visible_lsn_range, pending, file_change_counter,
                   h_written, h_committed, h_counter_field, h_reverted, h_received>>

Sync ==
    /\ ~Panicked
    /\ UNCHANGED wal_vars
    /\ last' = [op |-> "sync", ret |-> "ok"]
    /\ UNCHANGED <<journal, visible_lsn_range, pending, file_change_counter,
                   h_written, h_committed, h_counter_field, h_reverted, h_received>>

(* write *)

\* the write calls: <<pos, length of the buffer, seed of its bytes>>
WriteCalls ==
    {<<0, PAGESIZE, 1>>, <<5 * PAGESIZE, PAGESIZE, 1>>, <<5 * PAGESIZE, PAGESIZE, 2>>,
     <<0, 100, 1>>}

\* a write that files the page under the next index
WritePageIdxNext(pos) == pos \div PAGESIZE + 1

\* storage.rs 127
WritePageIdx(pos) == pos \div PAGESIZE

Write(pos, len, seed) ==
    /\ ~Panicked
    /\ UNCHANGED wal_vars
    /\ IF len = PAGESIZE
       THEN /\ pending' = SparseWrite(pending, WritePageIdx(pos), seed)
            /\ last' = [op |-> "write", ret |-> "ok", pos |-> pos, len |-> len,
                        seed |-> seed, n |-> len]
            /\ h_written' = [i \in (DOMAIN h_written) \cup {pos \div PAGESIZE} |->
                               IF i = pos \div PAGESIZE THEN seed ELSE h_written[i]]
            /\ h_committed' = None
       ELSE /\ last' = [op |-> "write", ret |-> "panic", pos |-> pos, len |-> len,
                        seed |-> seed, n |-> 0]
            /\ UNCHANGED <<pending, h_written, h_committed>>
    /\ h_reverted' = IF len = PAGESIZE THEN {} ELSE h_reverted
    /\ UNCHANGED <<journal, visible_lsn_range, file_change_counter, h_counter_field,
                   h_received>>

(* read *)

\* the read calls: <<pos, length of the caller's buffer>>
ReadCalls ==
    {<<0, 28>>, <<24, 4>>, <<26, 4>>, <<5 * PAGESIZE + PAGESIZE - 8, 8>>,
     <<5 * PAGESIZE + PAGESIZE - 4, 8>>}

\* the caller's buffer before the call
ZeroBuf(len) == [i \in 1..len |-> 0]

\* u32 | 1: the lowest bit set, not flipped
Or1(c) == IF c % 2 = 0 THEN c + 1 ELSE c

\* u32 ^ 1: the lowest bit flipped, which never carries out of 32 bits
Xor1(c) == IF c % 2 = 0 THEN c + 1 ELSE c - 1

\* u32::to_be_bytes
to_be_bytes(c) ==
    <<(c \div (2 ^ 24)) % 256, (c \div (2 ^ 16)) % 256, (c \div (2 ^ 8)) % 256, c % 256>>

\* a cursor over the journal's own range instead of the cached one
ReadCursorWholeJournal(log, visible) == Rev(ScanRange(log, JournalRange(log)))

\* a cursor that is not reversed: oldest entry first
ReadCursorForward(log, visible) == ScanRange(log, visible)

\* storage.rs 144: the cursor over the visible range, newest entry first
ReadCursor(log, visible) == Rev(ScanRange(log, visible))

RECURSIVE ReadScan(_, _, _, _)
\* storage.rs 145-150: while n == 0 and the cursor advances
ReadScan(cursor, r, page_idx, page_offset) ==
    IF r.n = 0 /\ cursor # <<>>
    THEN ReadScan(Tail(cursor),
                  SparseRead(Head(cursor).pages, page_idx, page_offset, r.buf),
                  page_idx, page_offset)
    ELSE r

\* a test that takes any read that overlaps the field
OverlapsChangeCounter(page_idx, page_offset, len) ==
    /\ page_idx = 0
    /\ page_offset < FILE_CHANGE_COUNTER_OFFSET + 4
    /\ page_offset + len > FILE_CHANGE_COUNTER_OFFSET

\* storage.rs 159-161
CoversChangeCounter(page_idx, page_offset, len) ==
    /\ page_idx = 0
    /\ page_offset <= FILE_CHANGE_COUNTER_OFFSET
    /\ page_offset + len >= FILE_CHANGE_COUNTER_OFFSET + 4

\* storage.rs 165-172: the flipped counter written over the field
PatchChangeCounter(buf, page_offset, counter) ==
    LET file_change_buf_offset == FILE_CHANGE_COUNTER_OFFSET - page_offset
    IN  [i \in 1..Len(buf) |->
           IF file_change_buf_offset < i /\ i <= file_change_buf_offset + 4
           THEN to_be_bytes(counter)[i - file_change_buf_offset]
           ELSE buf[i]]

\* a read that returns the count of a page that could not fill the buffer
ReadWithShortCount(pend, log, visible, counter, pos, buf) ==
    LET page_idx == pos \div PAGESIZE
        page_offset == pos % PAGESIZE
        r == ReadScan(ReadCursor(log, visible),
                      SparseRead(pend, page_idx, page_offset, buf),
                      page_idx, page_offset)
    IN  IF r.n # 0 /\ CoversChangeCounter(page_idx, page_offset, Len(buf))
        THEN [ret |-> "ok", n |-> r.n,
              buf |-> PatchChangeCounter(r.buf, page_offset, Xor1(counter)),
              counter |-> Xor1(counter)]
        ELSE [ret |-> "ok", n |-> r.n, buf |-> r.buf, counter |-> counter]

\* storage.rs 138-179 on the given state: the return value, the buffer and
\* the counter it leaves
ReadWith(pend, log, visible, counter, pos, buf) ==
    LET page_idx == pos \div PAGESIZE
        page_offset == pos % PAGESIZE
        r == ReadScan(ReadCursor(log, visible),
                      SparseRead(pend, page_idx, page_offset, buf),
                      page_idx, page_offset)
    IN  IF r.n # 0
        THEN IF r.n # Len(buf)
             THEN [ret |-> "panic", n |-> 0, buf |-> r.buf, counter |-> counter]
             ELSE IF CoversChangeCounter(page_idx, page_offset, Len(buf))
                  THEN [ret |-> "ok", n |-> Len(buf),
                        buf |-> PatchChangeCounter(r.buf, page_offset, Xor1(counter)),
                        counter |-> Xor1(counter)]
                  ELSE [ret |-> "ok", n |-> Len(buf), buf |-> r.buf, counter |-> counter]
        ELSE [ret |-> "ok", n |-> 0, buf |-> r.buf, counter |-> counter]

StorageRead(pos, buf) ==
    ReadWith(pending, journal[SourceId], visible_lsn_range, file_change_counter, pos, buf)

\* a read whose byte range [pos, pos + len) holds bytes 24..28 of page 0
ReadsCounterBytes(pos, len) == pos <= 24 /\ pos + len >= 28

\* bytes 24..28 of page 0 in the buffer of such a read
CounterField(buf, pos) == [i \in 1..4 |-> buf[24 - pos + i]]

Read(pos, len) ==
    /\ ~Panicked
    /\ UNCHANGED wal_vars
    /\ LET r == StorageRead(pos, ZeroBuf(len))
       IN  /\ file_change_counter' = r.counter
           /\ last' = [op |-> "read", ret |-> r.ret, pos |-> pos, len |-> len,
                       n |-> r.n, buf |-> r.buf]
           /\ h_counter_field' =
                IF r.ret = "ok" /\ r.n # 0 /\ ReadsCounterBytes(pos, len)
                THEN IF h_counter_field = None
                     THEN <<CounterField(r.buf, pos)>>
                     ELSE <<h_counter_field[Len(h_counter_field)],
                            CounterField(r.buf, pos)>>
                ELSE h_counter_field
    /\ UNCHANGED <<journal, visible_lsn_range, pending, h_written, h_committed,
                   h_reverted, h_received>>

(* replication *)

\* the page sets that arrive from a peer
ReplPageSets == {[i \in {0, 5} |-> 2]}

\* storage.rs 78-80
StorageReadLsn(lsn) == JournalReadLsn(journal[SourceId], lsn)

\* a range answered from the cached visible range
StorageRangeCached(id) == visible_lsn_range

\* storage.rs 84-89
StorageRange(id) == JournalRange(journal[id])

\* storage.rs 91-101
StorageWriteLsn(id, lsn, pages) == JournalWriteLsn(journal, id, lsn, pages)

ReadLsn(lsn) ==
    /\ ~Panicked
    /\ UNCHANGED wal_vars
    /\ last' = [op |-> "read_lsn", ret |-> "ok", lsn |-> lsn, reader |-> StorageReadLsn(lsn)]
    /\ UNCHANGED <<journal, visible_lsn_range, pending, file_change_counter,
                   h_written, h_committed, h_counter_field, h_reverted, h_received>>

Range(id) ==
    /\ ~Panicked
    /\ UNCHANGED wal_vars
    /\ last' = [op |-> "range", ret |-> "ok", id |-> id, range |-> StorageRange(id)]
    /\ UNCHANGED <<journal, visible_lsn_range, pending, file_change_counter,
                   h_written, h_committed, h_counter_field, h_reverted, h_received>>

WriteLsn(id, lsn, pages) ==
    /\ ~Panicked
    /\ UNCHANGED wal_vars
    /\ Len(journal[id]) < MaxLsn
    /\ LET r == StorageWriteLsn(id, lsn, pages)
       IN  /\ journal' = r.journal
           /\ last' = [op |-> "write_lsn", ret |-> IF r.ok THEN "ok" ELSE "err",
                       id |-> id, lsn |-> lsn, pages |-> pages]
           /\ h_received' = IF r.ok THEN [h_received EXCEPT ![id] = Append(@, lsn)]
                            ELSE h_received
    /\ UNCHANGED <<visible_lsn_range, pending, file_change_counter,
                   h_written, h_committed, h_counter_field, h_reverted>>

----------------------------------------------------------------------------
(* SqliteWal (lib/sqlsync/src/physical/sqlite_wal.rs): the bytes of one WAL
   file, a header of HEADER_SIZE bytes followed by frames of
   FRAME_HEADER_SIZE + PAGESIZE bytes.  The buffer is kept byte for byte.  A
   u32 of the layouts is kept as its four big-endian bytes, so that its
   arithmetic keeps the width of 32 bits.  The page map of as_pages holds
   each page as its PAGESIZE bytes. *)

\* the variables of the Storage
storage_vars == <<journal, visible_lsn_range, pending, file_change_counter,
                  h_written, h_committed, h_counter_field, h_reverted, h_received>>

(* Bounds of the model *)

\* no WAL buffer grows beyond this many frames
MaxFrames == 3

\* no WAL is reset more often than this
MaxResets == 2

(* Program constants *)

HEADER_SIZE == 32

FRAME_HEADER_SIZE == 24

\* 0x377f0683
WAL_MAGIC == 931071619

WAL_VERSION == 3007000

FrameSize == FRAME_HEADER_SIZE + PAGESIZE

(* u32 fields *)

\* a layout field of four bytes at the offset lies within the bytes
FieldInRange(bytes, off) == Len(bytes) >= off + 4

\* the four bytes of the field
FieldAt(bytes, off) == SubSeq(bytes, off + 1, off + 4)

\* u32::from_be_bytes, for values below 2^31
from_be_bytes(b) == ((b[1] * 256 + b[2]) * 256 + b[3]) * 256 + b[4]

\* u32::wrapping_add on big-endian bytes: the carry out of the top byte is lost
wrapping_add(a, b) ==
    LET s4 == a[4] + b[4]
        s3 == a[3] + b[3] + (s4 \div 256)
        s2 == a[2] + b[2] + (s3 \div 256)
        s1 == a[1] + b[1] + (s2 \div 256)
    IN  <<s1 % 256, s2 % 256, s3 % 256, s4 % 256>>

\* the order of u32 on big-endian bytes
U32Less(a, b) ==
    \E k \in 1..4 : a[k] < b[k] /\ \A j \in 1..(k - 1) : a[j] = b[j]

U32Max == <<255, 255, 255, 255>>

(* header_layout, frame_header_layout, wal_salts *)

HeaderSalt1(bytes) == FieldAt(bytes, 16)

HeaderSalt2(bytes) == FieldAt(bytes, 20)

HeaderChecksum1(bytes) == FieldAt(bytes, 24)

HeaderChecksum2(bytes) == FieldAt(bytes, 28)

FramePageNumber(bytes) == FieldAt(bytes, 0)

RECURSIVE sqlite_chksum(_, _, _)
\* the running checksum over pairs of big-endian words
sqlite_chksum(s0, s1, bytes) ==
    IF Len(bytes) < 8 THEN <<s0, s1>>
    ELSE LET n0 == wrapping_add(wrapping_add(s0, FieldAt(bytes, 0)), s1)
             n1 == wrapping_add(wrapping_add(s1, FieldAt(bytes, 4)), n0)
         IN  sqlite_chksum(n0, n1, SubSeq(bytes, 9, Len(bytes)))

\* sqlite_wal.rs 91-107: a header with the given salts and its checksum
HeaderBytes(salt1, salt2) ==
    LET first24 == to_be_bytes(WAL_MAGIC) \o to_be_bytes(WAL_VERSION)
                   \o to_be_bytes(PAGESIZE) \o to_be_bytes(0) \o salt1 \o salt2
        checksum == sqlite_chksum(to_be_bytes(0), to_be_bytes(0), first24)
    IN  first24 \o checksum[1] \o checksum[2]

\* the bytes of a page of the given seed
PageBytes(seed) == [i \in 1..PAGESIZE |-> PageByte(seed, i - 1)]

\* a frame as the database engine writes it: the page number, the rest of the
\* frame header left zero, the page
FrameBytes(page_number, seed) ==
    to_be_bytes(page_number) \o ZeroBuf(FRAME_HEADER_SIZE - 4) \o PageBytes(seed)

(* truncate *)

\* Vec::truncate: no effect when the buffer is not longer than size
VecTruncate(d, size) == SubSeq(d, 1, Min(size, Len(d)))

WalTruncateSizes == {0, 20, HEADER_SIZE}

WalTruncate(size) ==
    /\ ~Panicked
    /\ data' = VecTruncate(data, size)
    /\ last' = [op |-> "wal.truncate", ret |-> "ok"]
    /\ UNCHANGED <<storage_vars, h_resets>>

(* num_pages, len *)

\* a num_pages without the early return for a buffer of at most one header
wal_num_pages_no_early_return(d) ==
    IF (Len(d) - HEADER_SIZE) % FrameSize # 0
    THEN [ret |-> "panic", n |-> 0]
    ELSE [ret |-> "ok", n |-> (Len(d) - HEADER_SIZE) \div FrameSize]

\* sqlite_wal.rs 24-51
wal_num_pages(d) ==
    IF Len(d) <= HEADER_SIZE
    THEN [ret |-> "ok", n |-> 0]
    ELSE IF (Len(d) - HEADER_SIZE) % FrameSize # 0
         THEN [ret |-> "panic", n |-> 0]
         ELSE [ret |-> "ok", n |-> (Len(d) - HEADER_SIZE) \div FrameSize]

WalNumPages ==
    /\ ~Panicked
    /\ LET r == wal_num_pages(data)
       IN  last' = [op |-> "wal.num_pages", ret |-> r.ret, n |-> r.n]
    /\ UNCHANGED <<storage_vars, wal_vars>>

WalLen ==
    /\ ~Panicked
    /\ last' = [op |-> "wal.len", ret |-> "ok", n |-> Len(data)]
    /\ UNCHANGED <<storage_vars, wal_vars>>

(* write *)

\* the salts of the header the database engine writes
EngineSalt1 == U32Max

EngineSalt2 == <<1, 2, 3, 4>>

\* a write too short for a frame
ShortBytes == <<9, 9, 9, 9, 9, 9, 9, 9, 9, 9>>

\* the page numbers of the frames written
FramePageNumbers == {1, 3}

\* the write calls: <<offset, bytes>>.  The header at 0, a frame of page
\* number 1 or 3 at each frame position (the frame at position k carries the
\* page of seed k + 1), and a short write after the header.
WalWriteCalls ==
    {<<0, HeaderBytes(EngineSalt1, EngineSalt2)>>, <<HEADER_SIZE, ShortBytes>>}
    \cup {<<HEADER_SIZE + k * FrameSize, FrameBytes(pn, k + 1)>> :
            k \in 0..(MaxFrames - 1), pn \in FramePageNumbers}

\* a range check that also refuses a write that starts at the end
WriteStartNotInside(offset, current_len) == offset >= current_len

\* sqlite_wal.rs 62
WriteStartOutOfRange(offset, current_len) == offset > current_len

\* sqlite_wal.rs 57-75
wal_write(d, offset, buf) ==
    LET current_len == Len(d)
        write_len == Len(buf)
        end == offset + write_len
    IN  IF WriteStartOutOfRange(offset, current_len)
        THEN [ret |-> "err", n |-> 0, data |-> d]
        ELSE LET resized == IF end > current_len
                            THEN d \o ZeroBuf(end - current_len)
                            ELSE d
             IN  [ret |-> "ok", n |-> write_len,
                  data |-> SubSeq(resized, 1, offset) \o buf
                           \o SubSeq(resized, end + 1, Len(resized))]

WalWrite(offset, buf) ==
    /\ ~Panicked
    /\ LET r == wal_write(data, offset, buf)
       IN  /\ data' = r.data
           /\ last' = [op |-> "wal.write", ret |-> r.ret, offset |-> offset,
                       buf |-> buf, n |-> r.n]
    /\ UNCHANGED <<storage_vars, h_resets>>

(* read *)

\* the read calls: <<offset, length of the caller's buffer>>
WalReadCalls == {<<HEADER_SIZE - 4, 8>>}

\* sqlite_wal.rs 77-84
wal_read(d, offset, buf) ==
    LET remaining == IF Len(d) >= offset THEN Len(d) - offset ELSE 0
        n == Min(remaining, Len(buf))
    IN  [n |-> n,
         buf |-> [i \in 1..Len(buf) |-> IF i <= n THEN d[offset + i] ELSE buf[i]]]

WalRead(offset, len) ==
    /\ ~Panicked
    /\ LET r == wal_read(data, offset, ZeroBuf(len))
       IN  last' = [op |-> "wal.read", ret |-> "ok", n |-> r.n, buf |-> r.buf]
    /\ UNCHANGED <<storage_vars, wal_vars>>

(* reset *)

\* the values rand::random::<u32>() gives
Salt2Values == {<<0, 0, 0, 0>>, <<171, 205, 239, 1>>}

\* a reset that keeps the first salt
ResetSalt1Keep(prev_salt1) == prev_salt1

\* sqlite_wal.rs 99: prev_salt1.wrapping_add(1)
ResetSalt1(prev_salt1) == wrapping_add(prev_salt1, to_be_bytes(1))

\* sqlite_wal.rs 86-114.  The read of the previous first salt is out of range
\* on a buffer that does not reach the end of that field; copy_from_slice
\* needs the truncated buffer to be exactly as long as the header.
wal_reset(d, salt2) ==
    IF ~FieldInRange(d, 16)
    THEN [ret |-> "panic", data |-> d]
    ELSE LET prev_salt1 == HeaderSalt1(d)
             wal_hdr == HeaderBytes(ResetSalt1(prev_salt1), salt2)
             truncated == VecTruncate(d, HEADER_SIZE)
         IN  IF Len(truncated) # Len(wal_hdr)
             THEN [ret |-> "panic", data |-> truncated]
             ELSE [ret |-> "ok", data |-> wal_hdr]

WalReset(salt2) ==
    /\ ~Panicked
    /\ h_resets < MaxResets
    /\ LET r == wal_reset(data, salt2)
       IN  /\ data' = r.data
           /\ last' = [op |-> "wal.reset", ret |-> r.ret, salt2 |-> salt2]
    /\ h_resets' = h_resets + 1
    /\ UNCHANGED storage_vars

(* chksum, salts *)

\* sqlite_wal.rs 116-119
wal_chksum(d) ==
    IF ~FieldInRange(d, 28)
    THEN [ret |-> "panic", pair |-> <<>>]
    ELSE [ret |-> "ok", pair |-> <<HeaderChecksum1(d), HeaderChecksum2(d)>>]

WalChksum ==
    /\ ~Panicked
    /\ LET r == wal_chksum(data)
       IN  last' = [op |-> "wal.chksum", ret |-> r.ret, pair |-> r.pair]
    /\ UNCHANGED <<storage_vars, wal_vars>>

\* sqlite_wal.rs 121-125: both components are read through salt1()
wal_salts(d) ==
    IF ~FieldInRange(d, 16)
    THEN [ret |-> "panic", pair |-> <<>>]
    ELSE [ret |-> "ok", pair |-> <<HeaderSalt1(d), HeaderSalt1(d)>>]

WalSalts ==
    /\ ~Panicked
    /\ LET r == wal_salts(data)
       IN  last' = [op |-> "wal.salts", ret |-> r.ret, pair |-> r.pair]
    /\ UNCHANGED <<storage_vars, wal_vars>>

(* as_pages *)

\* an insert that keeps the page the map already holds
AsPagesInsertFirst(pages, page_number, page_data) ==
    IF page_number \in DOMAIN pages THEN pages
    ELSE SparseWrite(pages, page_number, page_data)

\* sqlite_wal.rs 146: BTreeMap::insert replaces the page the map holds
AsPagesInsert(pages, page_number, page_data) ==
    SparseWrite(pages, page_number, page_data)

RECURSIVE AsPagesScan(_, _, _)
\* sqlite_wal.rs 139-148 over the bytes past the header.  A frame cut short
\* puts the read of the page number or the slice of the page out of range.
AsPagesScan(d, offset, pages) ==
    IF ~(offset < Len(d))
    THEN [ret |-> "ok", pages |-> pages]
    ELSE IF \/ ~FieldInRange(SubSeq(d, offset + 1, Len(d)), 0)
            \/ offset + FRAME_HEADER_SIZE + PAGESIZE > Len(d)
         THEN [ret |-> "panic", pages |-> EmptyPages]
         ELSE AsPagesScan(
                  d, offset + FRAME_HEADER_SIZE + PAGESIZE,
                  AsPagesInsert(
                      pages,
                      from_be_bytes(FramePageNumber(SubSeq(d, offset + 1, offset + 4))),
                      SubSeq(d, offset + FRAME_HEADER_SIZE + 1,
                             offset + FRAME_HEADER_SIZE + PAGESIZE)))

\* an as_pages without the check of the length
wal_as_pages_unchecked(d) ==
    AsPagesScan(SubSeq(d, HEADER_SIZE + 1, Len(d)), 0, EmptyPages)

\* sqlite_wal.rs 127-151
wal_as_pages(d) ==
    IF ~(Len(d) >= HEADER_SIZE)
    THEN [ret |-> "panic", pages |-> EmptyPages]
    ELSE AsPagesScan(SubSeq(d, HEADER_SIZE + 1, Len(d)), 0, EmptyPages)

WalAsPages ==
    /\ ~Panicked
    /\ LET r == wal_as_pages(data)
       IN  last' = [op |-> "wal.as_pages", ret |-> r.ret, pages |-> r.pages]
    /\ UNCHANGED <<storage_vars, wal_vars>>

----------------------------------------------------------------------------
(* The Storage driven through the virtual-file contract, with a peer that
   replicates entries into the local journal. *)

Next ==
    \/ \E c \in WriteCalls : Write(c[1], c[2], c[3])
    \/ \E c \in ReadCalls : Read(c[1], c[2])
    \/ Commit
    \/ Revert
    \/ FileSize
    \/ Sync
    \/ \E size \in TruncateSizes : Truncate(size)
    \/ \E lsn \in 1..MaxLsn, pages \in ReplPageSets : WriteLsn(SourceId, lsn, pages)

Spec == Init /\ [][Next]_vars

(* The same Storage growing over pages 5 and 10, for the size of the file. *)

SizeWriteCalls == {<<5 * PAGESIZE, PAGESIZE, 1>>, <<10 * PAGESIZE, PAGESIZE, 1>>}

SizeReplPageSets == {[i \in {10} |-> 2]}

NextSize ==
    \/ \E c \in SizeWriteCalls : Write(c[1], c[2], c[3])
    \/ Commit
    \/ Revert
    \/ FileSize
    \/ \E lsn \in 1..MaxLsn, pages \in SizeReplPageSets : WriteLsn(SourceId, lsn, pages)

SpecSize == Init /\ [][NextSize]_vars

(* The Storage as a replication source and destination. *)

ReplWriteCalls == {<<0, PAGESIZE, 1>>}

NextRepl ==
    \/ \E id \in JournalIds, lsn \in 1..MaxLsn, pages \in ReplPageSets :
          WriteLsn(id, lsn, pages)
    \/ \E lsn \in 0..(MaxLsn + 1) : ReadLsn(lsn)
    \/ \E id \in JournalIds : Range(id)
    \/ \E c \in ReplWriteCalls : Write(c[1], c[2], c[3])
    \/ Commit

SpecRepl == Init /\ [][NextRepl]_vars

(* The SqliteWal driven by the database engine. *)

NextWal ==
    \/ \E c \in WalWriteCalls : WalWrite(c[1], c[2])
    \/ \E size \in WalTruncateSizes : WalTruncate(size)
    \/ \E salt2 \in Salt2Values : WalReset(salt2)
    \/ WalNumPages
    \/ WalLen
    \/ \E c \in WalReadCalls : WalRead(c[1], c[2])
    \/ WalChksum
    \/ WalSalts
    \/ WalAsPages

SpecWal == Init /\ [][NextWal]_vars

(* A Storage and a SqliteWal side by side, taking the calls that are misuse
   among their regular ones. *)

MisuseWriteCalls == {<<0, PAGESIZE, 1>>, <<0, 100, 1>>}

MisuseWalWriteCalls ==
    {<<0, HeaderBytes(EngineSalt1, EngineSalt2)>>, <<HEADER_SIZE, FrameBytes(1, 1)>>}

NextMisuse ==
    \/ \E c \in MisuseWriteCalls : Write(c[1], c[2], c[3])
    \/ \E size \in TruncateSizes : Truncate(size)
    \/ Commit
    \/ \E c \in MisuseWalWriteCalls : WalWrite(c[1], c[2])
    \/ \E size \in WalTruncateSizes : WalTruncate(size)
    \/ WalAsPages

SpecMisuse == Init /\ [][NextMisuse]_vars

----------------------------------------------------------------------------
(* Properties *)

PageIdxOf(pos) == pos \div PAGESIZE

PageOffsetOf(pos) == pos % PAGESIZE

\* position i of the buffer of a read (pos, len) lies in bytes 24..28 of page 0
\* and the read holds all four of them
InCounterField(pos, len, i) ==
    ReadsCounterBytes(pos, len) /\ 24 - pos < i /\ i <= 28 - pos

\* the last call was a read that returned
ReadReturned == last.op = "read" /\ last.ret = "ok"

\* the last call read a page among those the latest successful commit wrote
ReadOfCommittedPage ==
    /\ ReadReturned
    /\ IsSome(h_committed)
    /\ PageIdxOf(last.pos) \in DOMAIN Unwrap(h_committed)

\* C1 as stated: after writes and a successful commit, a read of a written
\* page returns exactly the bytes last written to it.
C1_ReadReturnsExactlyWrittenBytes ==
    ReadOfCommittedPage =>
        /\ last.n = last.len
        /\ \A i \in 1..last.len :
              last.buf[i] = PageByte(Unwrap(h_committed)[PageIdxOf(last.pos)],
                                     PageOffsetOf(last.pos) + i - 1)

\* C1 amended: after writes and a successful commit, a read of a written page
\* fills the buffer with the bytes last written to that page, except that a
\* read of page 0 covering bytes 24..28 carries the change counter there.
C1_ReadReturnsWrittenBytes ==
    ReadOfCommittedPage =>
        /\ last.n = last.len
        /\ \A i \in 1..last.len :
              \/ InCounterField(last.pos, last.len, i)
              \/ last.buf[i] = PageByte(Unwrap(h_committed)[PageIdxOf(last.pos)],
                                        PageOffsetOf(last.pos) + i - 1)

\* a header read of page 0 after page 0 was written and committed
C1_Witness ==
    /\ ReadOfCommittedPage
    /\ last.pos = 0
    /\ last.n = 28
    /\ last.buf[1] = PageByte(Unwrap(h_committed)[0], 0)

\* C2: a commit whose journal append fails returns the error and changes
\* nothing: journal, visible range and pending pages are as before the call.
C2_FailedCommitChangesNothing ==
    [][(last'.op = "commit" /\ last'.ret = "err") =>
          /\ journal' = journal
          /\ visible_lsn_range' = visible_lsn_range
          /\ pending' = pending]_vars

\* what a read call <<pos, len>> returns on the given state of the Storage
ReadResultIn(pend, log, visible, counter, c) ==
    LET r == ReadWith(pend, log, visible, counter, c[1], ZeroBuf(c[2]))
    IN  [ret |-> r.ret, n |-> r.n, buf |-> r.buf]

\* the same, with the change-counter bytes of a header read blanked
MaskedReadResultIn(pend, log, visible, counter, c) ==
    LET r == ReadResultIn(pend, log, visible, counter, c)
    IN  [r EXCEPT !.buf = [i \in 1..Len(r.buf) |->
                             IF InCounterField(c[1], c[2], i) THEN 0 ELSE r.buf[i]]]

\* what the call returns in the current state
ReadResult(c) ==
    ReadResultIn(pending, journal[SourceId], visible_lsn_range, file_change_counter, c)

\* what it returns in the state a step leads to
ReadResultNext(c) ==
    ReadResultIn(pending', journal'[SourceId], visible_lsn_range', file_change_counter', c)

\* what it returns with nothing pending: the state before the writes
PreWriteReadResult(c) ==
    ReadResultIn(EmptyPages, journal[SourceId], visible_lsn_range, file_change_counter, c)

MaskedReadResult(c) ==
    MaskedReadResultIn(pending, journal[SourceId], visible_lsn_range,
                       file_change_counter, c)

MaskedReadResultNext(c) ==
    MaskedReadResultIn(pending', journal'[SourceId], visible_lsn_range',
                       file_change_counter', c)

\* C3 as stated: revert empties pending, creates no journal entry, and every
\* later read returns what it returned before the writes.
C3_RevertRestoresEveryRead ==
    [][(last'.op = "revert" /\ pending # EmptyPages) =>
          /\ pending' = EmptyPages
          /\ journal' = journal
          /\ \A c \in ReadCalls : ReadResultNext(c) = PreWriteReadResult(c)]_vars

\* C3 amended: revert empties pending, creates no journal entry and sets the
\* visible range to the journal's range; when the journal holds no entry
\* beyond the visible range, every later read returns what it returned
\* before the writes.
C3_RevertRestoresReads ==
    [][last'.op = "revert" =>
          /\ pending' = EmptyPages
          /\ journal' = journal
          /\ visible_lsn_range' = JournalRange(journal[SourceId])
          /\ visible_lsn_range = JournalRange(journal[SourceId]) =>
                \A c \in ReadCalls : ReadResultNext(c) = PreWriteReadResult(c)]_vars

\* a revert that discarded a pending page 5 over a journal that holds page 5
C3_Witness ==
    /\ last.op = "revert"
    /\ 5 \in h_reverted
    /\ pending = EmptyPages
    /\ RangeIsNonEmpty(visible_lsn_range)
    /\ ReadResult(<<5 * PAGESIZE + PAGESIZE - 8, 8>>).n = 8

\* C4 as stated: the visible range changes only in commit and revert, and
\* without a write, commit or revert in between a read at a given position
\* returns the same result, whatever is appended to the journal.
C4_ReadsRepeatExactly ==
    [][/\ visible_lsn_range' # visible_lsn_range => last'.op \in {"commit", "revert"}
       /\ last'.op \notin {"write", "commit", "revert"} =>
             \A c \in ReadCalls : ReadResultNext(c) = ReadResult(c)]_vars

\* C4 amended: the same, the result compared apart from the change-counter
\* bytes of a page-0 read that covers bytes 24..28.
C4_ReadsRepeat ==
    [][/\ visible_lsn_range' # visible_lsn_range => last'.op \in {"commit", "revert"}
       /\ last'.op \notin {"write", "commit", "revert"} =>
             \A c \in ReadCalls : MaskedReadResultNext(c) = MaskedReadResult(c)]_vars

\* a read of page 5 answered from the snapshot while a replicated entry that
\* holds other bytes for page 5 sits in the journal beyond the visible range
C4_Witness ==
    /\ ReadReturned
    /\ PageIdxOf(last.pos) = 5
    /\ last.n = last.len
    /\ 5 \notin DOMAIN pending
    /\ journal[SourceId] # <<>>
    /\ LET e == journal[SourceId][Len(journal[SourceId])]
       IN  /\ ~RangeContains(visible_lsn_range, e.lsn)
           /\ 5 \in DOMAIN e.pages
           /\ last.buf[1] # PageByte(e.pages[5], PageOffsetOf(last.pos))

\* the journal entries of the visible range that hold the page
VisibleHolders(page_idx) ==
    {e \in {journal[SourceId][k] : k \in 1..Len(journal[SourceId])} :
        RangeContains(visible_lsn_range, e.lsn) /\ page_idx \in DOMAIN e.pages}

\* the version of the page by precedence: pending, else the visible entry of
\* highest lsn that holds it, else none
ResolvedPage(page_idx) ==
    IF page_idx \in DOMAIN pending THEN Some(pending[page_idx])
    ELSE IF VisibleHolders(page_idx) # {}
         THEN Some((CHOOSE e \in VisibleHolders(page_idx) :
                       \A f \in VisibleHolders(page_idx) : f.lsn <= e.lsn).pages[page_idx])
         ELSE None

\* C5: a read that returns gives the pending version of the page if there is
\* one, else the version of the highest-lsn entry of the visible range that
\* holds the page, else 0; entries outside the visible range play no part.
\* (The change-counter bytes of a header read are left aside.)
C5_ReadPrecedence ==
    ReadReturned =>
        LET v == ResolvedPage(PageIdxOf(last.pos))
        IN  IF v = None
            THEN last.n = 0 /\ last.buf = ZeroBuf(last.len)
            ELSE /\ last.n = last.len
                 /\ \A i \in 1..last.len :
                       \/ InCounterField(last.pos, last.len, i)
                       \/ last.buf[i] = PageByte(Unwrap(v), PageOffsetOf(last.pos) + i - 1)

\* a read of page 5 answered by the newer of two visible entries that hold
\* different bytes for it, while a third, invisible or not, does not matter
C5_Witness ==
    /\ ReadReturned
    /\ PageIdxOf(last.pos) = 5
    /\ 5 \notin DOMAIN pending
    /\ Cardinality(VisibleHolders(5)) = 2
    /\ \E e, f \in VisibleHolders(5) :
          /\ e.lsn < f.lsn
          /\ e.pages[5] # f.pages[5]
          /\ last.buf[1] = PageByte(f.pages[5], PageOffsetOf(last.pos))

\* every page index held by the pending set or by a visible journal entry
VisiblePageIdxs ==
    (DOMAIN pending) \cup
    UNION {DOMAIN journal[SourceId][k].pages :
             k \in {j \in 1..Len(journal[SourceId]) :
                      RangeContains(visible_lsn_range, journal[SourceId][j].lsn)}}

ExpectedFileSize ==
    IF VisiblePageIdxs = {} THEN 0 ELSE (SetMax(VisiblePageIdxs) + 1) * PAGESIZE

\* C6: in every state file_size is (M + 1) * PAGESIZE for the greatest page
\* index M of the pending set and the visible journal entries, 0 when there
\* is none; with page 5 committed and page 10 in no journal entry, after a
\* revert that discards a pending page 10 it is 6 * PAGESIZE.
C6_FileSize ==
    /\ file_size = ExpectedFileSize
    /\ last.op = "file_size" => last.size = ExpectedFileSize
    /\ (/\ last.op = "file_size"
        /\ 10 \in h_reverted
        /\ \E k \in 1..Len(journal[SourceId]) : 5 \in DOMAIN journal[SourceId][k].pages
        /\ \A k \in 1..Len(journal[SourceId]) : 10 \notin DOMAIN journal[SourceId][k].pages)
       => last.size = 6 * PAGESIZE

\* page 5 committed, page 10 written and reverted, then file_size called
C6_Witness ==
    /\ last.op = "file_size"
    /\ last.size = 6 * PAGESIZE
    /\ 10 \in h_reverted
    /\ pending = EmptyPages
    /\ Len(journal[SourceId]) = 1
    /\ DOMAIN journal[SourceId][1].pages = {5}

\* C7: two consecutive reads that hold the change-counter field of page 0 and
\* find the page return different bytes in that field.
C7_CounterFieldDiffers ==
    Len(h_counter_field) = 2 => h_counter_field[1] # h_counter_field[2]

\* a second header read, with nothing pending, right after another read
C7_Witness ==
    /\ ReadReturned
    /\ ReadsCounterBytes(last.pos, last.len)
    /\ last.n = last.len
    /\ Len(h_counter_field) = 2
    /\ CounterField(last.buf, last.pos) = h_counter_field[2]
    /\ pending = EmptyPages

\* C8: a successful commit of a non-empty pending set appends exactly one
\* entry, whose lsn is the previous last lsn plus 1 (the initial lsn on an
\* empty journal); last_committed_lsn only grows, by steps of 1; an appended
\* entry is never changed, removed or reordered.
C8_CommitAppendsOneEntry ==
    [][LET old == journal[SourceId]
           new == journal'[SourceId]
       IN  /\ (last'.op = "commit" /\ last'.ret = "ok" /\ SparseNumPages(pending) > 0) =>
                 /\ Len(new) = Len(old) + 1
                 /\ new[Len(new)].lsn =
                       IF old = <<>> THEN InitialLsn ELSE old[Len(old)].lsn + 1
           /\ Len(old) <= Len(new)
           /\ \A k \in 1..Len(old) : new[k] = old[k]
           /\ new # old =>
                 /\ IsSome(last_committed_lsn')
                 /\ IsSome(last_committed_lsn) =>
                       Unwrap(last_committed_lsn') = Unwrap(last_committed_lsn) + 1]_vars

\* two commits in a row, each of which appended one entry
C8_Witness ==
    /\ last.op = "commit"
    /\ last.ret = "ok"
    /\ last.nonempty
    /\ h_received[SourceId] = <<>>
    /\ Len(journal[SourceId]) = 2
    /\ journal[SourceId][1].lsn = InitialLsn
    /\ journal[SourceId][2].lsn = InitialLsn + 1
    /\ last_committed_lsn = Some(InitialLsn + 1)

\* the write_lsn calls the journal of id accepted are lsn 1..N in order, and
\* nothing else was appended to it
ReceivedInOrder(id) ==
    /\ h_received[id] # <<>>
    /\ h_received[id] = [k \in 1..Len(h_received[id]) |-> k]
    /\ Len(journal[id]) = Len(h_received[id])

\* C9: write_lsn and range reach the journal with their arguments unchanged; a
\* destination that received lsn 1..N in order for an id reports [1, N] for
\* it; read_lsn of an lsn outside the local range returns none, not an error.
C9_Replication ==
    [][/\ last'.op = "write_lsn" =>
             LET r == JournalWriteLsn(journal, last'.id, last'.lsn, last'.pages)
             IN  journal' = r.journal /\ (last'.ret = "ok" <=> r.ok)
       /\ \A id \in JournalIds :
             ReceivedInOrder(id)' =>
                StorageRange(id)' = NonEmptyRange(1, Len(h_received'[id]))
       /\ last'.op = "range" => last'.range = JournalRange(journal[last'.id])
       /\ last'.op = "read_lsn" =>
             /\ last'.reader = JournalReadLsn(journal[SourceId], last'.lsn)
             /\ ~RangeContains(JournalRange(journal[SourceId]), last'.lsn) =>
                   last'.ret = "ok" /\ last'.reader = None]_vars

\* the peer's entries 1 and 2 received in order, then range(peer) asked
C9_Witness ==
    /\ h_received["peer"] = <<1, 2>>
    /\ last.op = "range"
    /\ last.id = "peer"
    /\ last.range = NonEmptyRange(1, 2)
    /\ JournalReadLsn(journal[SourceId], 2) = None

\* C10: a commit with nothing pending succeeds and changes nothing: no
\* journal entry, no lsn consumed, pending and the cached visible range as
\* they were, the range not refreshed from the journal.
C10_EmptyCommitIsNoop ==
    [][(last'.op = "commit" /\ SparseNumPages(pending) = 0) =>
          /\ last'.ret = "ok"
          /\ journal' = journal
          /\ NextLsn(journal'[SourceId]) = NextLsn(journal[SourceId])
          /\ pending' = pending
          /\ visible_lsn_range' = visible_lsn_range]_vars

\* an empty commit over a journal that has grown beyond the cached range
C10_Witness ==
    /\ last.op = "commit"
    /\ last.ret = "ok"
    /\ ~last.nonempty
    /\ pending = EmptyPages
    /\ visible_lsn_range # JournalRange(journal[SourceId])

----------------------------------------------------------------------------
(* Properties of the SqliteWal *)

\* the frames a buffer of a header followed by whole frames holds
NumFrames(d) == (Len(d) - HEADER_SIZE) \div FrameSize

\* a header followed by whole frames
IsHeaderAndFrames(d) ==
    Len(d) >= HEADER_SIZE /\ (Len(d) - HEADER_SIZE) % FrameSize = 0

\* C11: SqliteWal.write fails with an error and leaves the buffer unchanged
\* when offset is greater than the length; otherwise it succeeds, returns the
\* number of bytes written, the new length is max(old length, offset + number
\* of bytes), the bytes of [offset, offset + number) are the written bytes and
\* every byte outside that range is unchanged.
C11_WalWrite ==
    [][last'.op = "wal.write" =>
          LET offset == last'.offset
              buf == last'.buf
              end == offset + Len(buf)
          IN  IF offset > Len(data)
              THEN last'.ret = "err" /\ data' = data
              ELSE /\ last'.ret = "ok"
                   /\ last'.n = Len(buf)
                   /\ Len(data') = IF Len(data) >= end THEN Len(data) ELSE end
                   /\ SubSeq(data', offset + 1, end) = buf
                   /\ SubSeq(data', 1, offset) = SubSeq(data, 1, offset)
                   /\ SubSeq(data', end + 1, Len(data')) =
                         SubSeq(data, end + 1, Len(data))]_vars

\* a frame written over the first of two frames, of another page number
C11_Witness ==
    /\ last.op = "wal.write"
    /\ last.ret = "ok"
    /\ last.offset = HEADER_SIZE
    /\ last.n = FrameSize
    /\ Len(data) = HEADER_SIZE + 2 * FrameSize
    /\ FramePageNumber(SubSeq(data, HEADER_SIZE + 1, HEADER_SIZE + 4)) = to_be_bytes(1)
    /\ FramePageNumber(SubSeq(data, HEADER_SIZE + FrameSize + 1,
                              HEADER_SIZE + FrameSize + 4)) = to_be_bytes(3)

\* a write refused because it starts beyond the end of a buffer that holds a
\* header
C11_WitnessRefused ==
    /\ last.op = "wal.write"
    /\ last.ret = "err"
    /\ last.offset > Len(data)
    /\ Len(data) = HEADER_SIZE

\* the page number of the k-th frame of a header followed by whole frames
FrameNumberOf(d, k) ==
    from_be_bytes(FieldAt(d, HEADER_SIZE + (k - 1) * FrameSize))

\* the page of the k-th frame
FramePayloadOf(d, k) ==
    SubSeq(d, HEADER_SIZE + (k - 1) * FrameSize + FRAME_HEADER_SIZE + 1,
           HEADER_SIZE + k * FrameSize)

\* C12: as_pages on a header followed by frames returns a page map whose keys
\* are exactly the page numbers of the frames and whose value for a key is
\* the page of the last frame of that number; for frames of pages 3, 1, 3 it
\* holds two entries, page 1 of the second frame and page 3 of the third.
C12_AsPages ==
    (last.op = "wal.as_pages" /\ IsHeaderAndFrames(data)) =>
        LET N == NumFrames(data)
        IN  /\ last.ret = "ok"
            /\ DOMAIN last.pages = {FrameNumberOf(data, k) : k \in 1..N}
            /\ \A p \in DOMAIN last.pages :
                  last.pages[p] =
                     FramePayloadOf(data, SetMax({k \in 1..N : FrameNumberOf(data, k) = p}))
            /\ (N = 3 /\ [k \in 1..3 |-> FrameNumberOf(data, k)] = <<3, 1, 3>>) =>
                  /\ Cardinality(DOMAIN last.pages) = 2
                  /\ last.pages[1] = FramePayloadOf(data, 2)
                  /\ last.pages[3] = FramePayloadOf(data, 3)

\* as_pages on frames of pages 3, 1, 3 whose two pages 3 differ
C12_Witness ==
    /\ last.op = "wal.as_pages"
    /\ last.ret = "ok"
    /\ Len(data) = HEADER_SIZE + 3 * FrameSize
    /\ [k \in 1..3 |-> FrameNumberOf(data, k)] = <<3, 1, 3>>
    /\ FramePayloadOf(data, 1) # FramePayloadOf(data, 3)
    /\ DOMAIN last.pages = {1, 3}
    /\ last.pages[3] = PageBytes(3)
    /\ last.pages[1] = PageBytes(2)

\* the low 24 bits of a u32 kept as big-endian bytes
U32Low(b) == (b[2] * 256 + b[3]) * 256 + b[4]

\* b = a + 1 as integers: a is not the greatest u32
U32IsSuccessor(a, b) ==
    IF U32Low(a) < 2 ^ 24 - 1
    THEN b[1] = a[1] /\ U32Low(b) = U32Low(a) + 1
    ELSE a[1] < 255 /\ b[1] = a[1] + 1 /\ U32Low(b) = 0

\* a reset that completed
ResetCompleted == last.op = "wal.reset" /\ last.ret = "ok"

\* C13 as stated: each reset sets the first salt to the previous first salt
\* plus 1, so that the first salts of consecutive resets increase and differ
\* by exactly 1, for every previous salt of 32 bits.
C13_Salt1IncreasesByOne ==
    [][ResetCompleted' =>
          /\ U32IsSuccessor(HeaderSalt1(data), HeaderSalt1(data'))
          /\ U32Less(HeaderSalt1(data), HeaderSalt1(data'))]_vars

\* C13 amended: each reset sets the first salt to the previous first salt plus
\* 1 modulo 2^32: it is the successor of the previous one, and greater, for
\* every previous salt but the greatest, 0xFFFFFFFF, after which it is 0.
C13_Salt1WrappingIncrement ==
    [][ResetCompleted' =>
          IF HeaderSalt1(data) = U32Max
          THEN HeaderSalt1(data') = <<0, 0, 0, 0>>
          ELSE /\ U32IsSuccessor(HeaderSalt1(data), HeaderSalt1(data'))
               /\ U32Less(HeaderSalt1(data), HeaderSalt1(data'))]_vars

\* the second of two resets of a WAL whose header held the greatest first
\* salt: the first salt went to 0, then to 1
C13_Witness ==
    /\ ResetCompleted
    /\ h_resets = 2
    /\ HeaderSalt1(data) = <<0, 0, 0, 1>>
    /\ Len(data) = HEADER_SIZE

\* C14: reset, called in any state of the buffer reachable through new,
\* write, truncate and reset, a freshly created empty buffer included,
\* completes and leaves exactly HEADER_SIZE bytes that hold the new header,
\* every frame discarded: num_pages() is 0 and as_pages() is empty.
C14_ResetAlwaysCompletes ==
    last.op = "wal.reset" =>
        /\ last.ret = "ok"
        /\ Len(data) = HEADER_SIZE
        /\ data = HeaderBytes(HeaderSalt1(data), last.salt2)
        /\ wal_num_pages(data) = [ret |-> "ok", n |-> 0]
        /\ wal_as_pages(data) = [ret |-> "ok", pages |-> EmptyPages]

\* the part of C14 the code keeps: a reset of a buffer that holds at least a
\* whole header leaves the new header alone
C14_ResetOfWholeHeader ==
    [][(last'.op = "wal.reset" /\ Len(data) >= HEADER_SIZE) =>
          /\ last'.ret = "ok"
          /\ Len(data') = HEADER_SIZE
          /\ HeaderSalt2(data') = last'.salt2]_vars

\* a step left the pending set, the journal, the visible range and the WAL
\* buffer as they were
MisuseChangedNothing ==
    /\ pending' = pending
    /\ journal' = journal
    /\ visible_lsn_range' = visible_lsn_range
    /\ data' = data

\* C15: misuse is fatal and alters no state: Storage.write with a buffer
\* whose length is not PAGESIZE, Storage.truncate with any size, and as_pages
\* on a buffer shorter than one header each abort, with the pending set, the
\* journal, the visible range and the WAL buffer unchanged; nothing runs
\* after the abort.
C15_MisuseIsFatal ==
    [][/\ ~Panicked
       /\ (last'.op = "write" /\ last'.len # PAGESIZE) =>
             last'.ret = "panic" /\ MisuseChangedNothing
       /\ last'.op = "truncate" =>
             last'.ret = "panic" /\ MisuseChangedNothing
       /\ (last'.op = "wal.as_pages" /\ Len(data) < HEADER_SIZE) =>
             last'.ret = "panic" /\ MisuseChangedNothing]_vars

\* as_pages aborted on a buffer cut below one header, beside a Storage that
\* holds a pending page and a journal entry
C15_Witness ==
    /\ last.op = "wal.as_pages"
    /\ last.ret = "panic"
    /\ Len(data) = 20
    /\ pending # EmptyPages
    /\ journal[SourceId] # <<>>

\* a Storage.write of 100 bytes aborted with a page pending and a WAL of a
\* header and a frame
C15_WitnessWrite ==
    /\ last.op = "write"
    /\ last.ret = "panic"
    /\ last.len = 100
    /\ pending # EmptyPages
    /\ Len(data) = HEADER_SIZE + FrameSize

\* a Storage.truncate aborted with a page pending
C15_WitnessTruncate ==
    /\ last.op = "truncate"
    /\ last.ret = "panic"
    /\ pending # EmptyPages
    /\ data # <<>>

\* C17 as stated: num_pages depends only on the length L of the buffer: it is
\* fatal whenever L - HEADER_SIZE is not an exact multiple of
\* FRAME_HEADER_SIZE + PAGESIZE, and otherwise returns
\* (L - HEADER_SIZE) / (FRAME_HEADER_SIZE + PAGESIZE), 0 for exactly a header.
C17_NumPagesFatalUnlessAligned ==
    last.op = "wal.num_pages" =>
        IF (Len(data) - HEADER_SIZE) % (FRAME_HEADER_SIZE + PAGESIZE) # 0
        THEN last.ret = "panic"
        ELSE /\ last.ret = "ok"
             /\ last.n = (Len(data) - HEADER_SIZE) \div (FRAME_HEADER_SIZE + PAGESIZE)

\* C17 amended: num_pages depends only on the length L of the buffer: it
\* returns 0 whenever L <= HEADER_SIZE, an empty or cut header included; for
\* L > HEADER_SIZE it is fatal when L - HEADER_SIZE is not an exact multiple
\* of FRAME_HEADER_SIZE + PAGESIZE and returns the quotient otherwise.
C17_NumPages ==
    last.op = "wal.num_pages" =>
        IF Len(data) <= HEADER_SIZE
        THEN last.ret = "ok" /\ last.n = 0
        ELSE IF \E k \in 1..(MaxFrames + 1) :
                   Len(data) = HEADER_SIZE + k * (FRAME_HEADER_SIZE + PAGESIZE)
             THEN /\ last.ret = "ok"
                  /\ Len(data) = HEADER_SIZE + last.n * (FRAME_HEADER_SIZE + PAGESIZE)
             ELSE last.ret = "panic"

\* num_pages answered 0 on a buffer cut below one header
C17_Witness ==
    /\ last.op = "wal.num_pages"
    /\ last.ret = "ok"
    /\ last.n = 0
    /\ Len(data) = 20

\* num_pages answered 2 on a header and two frames
C17_WitnessFrames ==
    /\ last.op = "wal.num_pages"
    /\ last.ret = "ok"
    /\ last.n = 2
    /\ Len(data) = HEADER_SIZE + 2 * FrameSize

\* num_pages aborted on a header followed by a part of a frame
C17_WitnessAbort ==
    /\ last.op = "wal.num_pages"
    /\ last.ret = "panic"
    /\ Len(data) = HEADER_SIZE + Len(ShortBytes)

\* C19: salts() returns the pair (first salt, second salt) the header holds,
\* so that after a reset its first component is the incremented first salt
\* and its second the second salt that reset generated and wrote.
C19_SaltsReturnsBothSalts ==
    (last.op = "wal.salts" /\ last.ret = "ok") =>
        last.pair = <<HeaderSalt1(data), HeaderSalt2(data)>>

\* the part of C19 the code keeps: the first component is the first salt of
\* the header
C19_SaltsFirstComponent ==
    (last.op = "wal.salts" /\ last.ret = "ok") => last.pair[1] = HeaderSalt1(data)

----------------------------------------------------------------------------
(* Properties of the virtual-file operations of the Storage *)

\* position i of the buffer of a read at pos holds a byte of bytes 24..28 of
\* page 0
IsCounterByte(pos, i) == 24 <= pos + i - 1 /\ pos + i - 1 < 28

\* the range [pos, pos + len) shares a byte with bytes 24..28 of page 0
OverlapsCounterBytes(pos, len) == pos < 28 /\ pos + len > 24

\* the two counters differ in the lowest bit and in nothing else
IsBitFlip(c, d) == c # d /\ c \div 2 = d \div 2

\* the bytes of the buffer that lie in bytes 24..28 of page 0 are those of
\* the counter
CounterBytesAre(pos, buf, counter) ==
    \A i \in 1..Len(buf) :
        IsCounterByte(pos, i) => buf[i] = to_be_bytes(counter)[pos + i - 24]

\* C16 as stated: a read on page 0 that finds the page and whose range
\* overlaps bytes 24..28 flips the stored counter and returns its value at
\* the matching offset; a read that does not overlap them, or finds no page,
\* leaves the counter unchanged.
C16_CounterFlipsOnOverlap ==
    [][(last'.op = "read" /\ last'.ret = "ok") =>
          IF last'.n # 0 /\ OverlapsCounterBytes(last'.pos, last'.len)
          THEN /\ IsBitFlip(file_change_counter, file_change_counter')
               /\ CounterBytesAre(last'.pos, last'.buf, file_change_counter')
          ELSE file_change_counter' = file_change_counter]_vars

\* C16 amended: a read on page 0 that finds the page and whose range holds
\* all of bytes 24..28 flips the stored counter and returns its value at the
\* matching offset; every other read (one that holds only a part of them or
\* none, or finds no page) leaves the counter unchanged.
C16_CounterFlipsOnCover ==
    [][(last'.op = "read" /\ last'.ret = "ok") =>
          IF last'.n # 0 /\ ReadsCounterBytes(last'.pos, last'.len)
          THEN /\ IsBitFlip(file_change_counter, file_change_counter')
               /\ CounterBytesAre(last'.pos, last'.buf, file_change_counter')
          ELSE file_change_counter' = file_change_counter]_vars

\* a read of exactly bytes 24..28 of a page 0 that was found, answered with
\* the counter, which stands flipped
C16_Witness ==
    /\ ReadReturned
    /\ last.pos = 24
    /\ last.len = 4
    /\ last.n = 4
    /\ file_change_counter = 1
    /\ last.buf = to_be_bytes(file_change_counter)

\* a read of bytes 26..30 of a page 0 that was found, answered with the bytes
\* of the page
C16_WitnessPartial ==
    /\ ReadReturned
    /\ last.pos = 26
    /\ last.n = 4
    /\ file_change_counter = 1
    /\ \A i \in 1..4 : last.buf[i] = PageByte(ResolvedPage(0)[1], 26 + i - 1)

\* the last call, a read, found its page in the pending set or in a visible
\* journal entry
ReadFoundPage == ResolvedPage(PageIdxOf(last.pos)) # None

\* the range of the last call, a read, runs past the end of its page
ReadRunsPastPage == PageOffsetOf(last.pos) + last.len > PAGESIZE

\* C18: every read that returns reports 0, the page found nowhere, or exactly
\* the length of the buffer, never a partial count; a read whose range runs
\* past the end of a page that is found aborts instead of returning a short
\* count.
C18_ReadAllOrNothing ==
    last.op = "read" =>
        /\ last.ret = "ok" =>
              /\ last.n \in {0, last.len}
              /\ last.n = 0 <=> ~ReadFoundPage
        /\ (ReadFoundPage /\ ReadRunsPastPage) <=> last.ret = "panic"

\* a read of 8 bytes that starts 4 bytes before the end of page 5, found in
\* the journal, aborted
C18_Witness ==
    /\ last.op = "read"
    /\ last.ret = "panic"
    /\ last.pos = 5 * PAGESIZE + PAGESIZE - 4
    /\ last.len = 8
    /\ 5 \notin DOMAIN pending
    /\ VisibleHolders(5) # {}

\* the same read returned 0 where page 5 is found nowhere
C18_WitnessNotFound ==
    /\ last.op = "read"
    /\ last.ret = "ok"
    /\ last.pos = 5 * PAGESIZE + PAGESIZE - 4
    /\ last.n = 0
    /\ journal[SourceId] # <<>>

\* C20: the frame conditions of the virtual-file operations: write changes
\* the pending page map alone, where it puts the page under the index
\* position / PAGESIZE and keeps every other page, and leaves the journal,
\* the visible range and the change counter unchanged; read changes nothing
\* but, possibly, the change counter; file_size and sync change nothing.
C20_FrameConditions ==
    [][/\ last'.op = "write" =>
             /\ journal' = journal
             /\ visible_lsn_range' = visible_lsn_range
             /\ file_change_counter' = file_change_counter
             /\ last'.ret = "ok" =>
                   /\ DOMAIN pending' = (DOMAIN pending) \cup {last'.pos \div PAGESIZE}
                   /\ pending'[last'.pos \div PAGESIZE] = last'.seed
                   /\ \A i \in DOMAIN pending :
                         i # last'.pos \div PAGESIZE => pending'[i] = pending[i]
             /\ last'.ret # "ok" => pending' = pending
       /\ last'.op = "read" =>
             /\ journal' = journal
             /\ visible_lsn_range' = visible_lsn_range
             /\ pending' = pending
       /\ last'.op \in {"file_size", "sync"} =>
             /\ journal' = journal
             /\ visible_lsn_range' = visible_lsn_range
             /\ pending' = pending
             /\ file_change_counter' = file_change_counter]_vars

\* a write of page 5 over a pending page 5 of other bytes, beside a pending
\* page 0, a journal that holds an entry and a counter that stands flipped
C20_Witness ==
    /\ last.op = "write"
    /\ last.ret = "ok"
    /\ last.pos = 5 * PAGESIZE
    /\ last.seed = 2
    /\ pending = [i \in {0, 5} |-> IF i = 0 THEN 1 ELSE 2]
    /\ h_written = pending
    /\ journal[SourceId] # <<>>
    /\ file_change_counter = 1

\* a sync with a page pending and an entry in the journal beyond the visible
\* range
C20_WitnessSync ==
    /\ last.op = "sync"
    /\ pending # EmptyPages
    /\ visible_lsn_range # JournalRange(journal[SourceId])

====
